---- MODULE Spec2Model ----
(***************************************************************************)
(* Evaluation workflow of the interview evaluator.                         *)
(*                                                                         *)
(* The model covers the Supabase edge function evaluate-transcript (the    *)
(* serve handler, evaluateTranscript and storeEvaluationResults), the      *)
(* browser-side upload service that creates interview rows, and the        *)
(* browser-side polling loop pollEvaluationResults that drives the edge    *)
(* function.  Every await of the handler is one step, so that handlers of  *)
(* concurrent requests interleave exactly where the code yields.           *)
(*                                                                         *)
(* Numbers: a score is written in tenths (80 is 8.0, 75 is 7.5), the       *)
(* precision of the NUMERIC(3,1) columns; the arithmetic on scores is the  *)
(* binary64 arithmetic of the code.                                        *)
(***************************************************************************)
EXTENDS Integers, Sequences, FiniteSets, TLC

\* ------------------------------------------------------------------ bounds

\* Number of interviews that can be uploaded.
MaxEvents == 3
MaxRequests == 2
MaxInterviews == 1

\* Longest criteria_evaluations array in the specification of the overall
\* score.
MaxCriteria == 4

\* The maxAttempts argument of pollEvaluationResults (the source's default
\* is 30; the loop is the same for every value).
maxAttempts == 2

\* The callers of the edge function: a browser session that runs
\* pollEvaluationResults (entered from uploadTranscript of api.ts), and a
\* caller that sends one evaluate request (evaluateTranscript of api.ts is
\* exported, and the function's URL accepts any HTTP client).
Pollers == {"poll"}
Clients == Pollers \cup {"direct"}

InterviewIds == 1..MaxInterviews

\* ------------------------------------------------------- values and rubric

\* A falsy interview_id in the request body.
NoId == 0

\* A score the Judge returned that is not a number (such as "high").
NonNumeric == 99999

\* overall_score when the mean is NaN: JSON.stringify writes null.
Null == -99999

EVALUATION_CRITERIA ==
    { "Python Proficiency", "SQL Knowledge", "Data Manipulation",
      "Statistical Knowledge", "Machine Learning Concepts",
      "Problem Solving", "Communication Skills" }

Crit(n, s) == [criterion |-> n, score |-> s]

Answer(cs, s) == [criteria_evaluations |-> cs, summary |-> s]

\* The rubric configured as active: the topics of the evaluation_criteria
\* rows, all seeded with is_active = true.  No code reads the table.
ActiveRubric ==
    { "Python Proficiency", "SQL Skills", "Machine Learning", "Statistics",
      "Data Visualization", "Problem Solving", "Communication",
      "Domain Knowledge", "Data Engineering", "System Design" }

\* The answers the Judge is taken to give (the criteria_evaluations array of
\* the second completion and the summary of the third): a well-formed answer
\* with one and with two criteria, an empty summary, an empty array, a score
\* out of range on either side, a criterion outside the rubric and a score
\* that is not a number.
JudgeAnswers ==
    { Answer(<< Crit("Python Proficiency", 80) >>, "Good"),
      Answer(<< Crit("Python Proficiency", 80), Crit("SQL Knowledge", 70) >>, "Good"),
      Answer(<< Crit("Python Proficiency", 80) >>, ""),
      Answer(<< >>, "Good"),
      Answer(<< Crit("Python Proficiency", 150) >>, "Good"),
      Answer(<< Crit("SQL Knowledge", -20) >>, "Good"),
      Answer(<< Crit("Leadership", 80) >>, "Good"),
      Answer(<< Crit("Python Proficiency", NonNumeric) >>, "Good") }

\* Ways evaluateTranscript throws: the provider call rejects (timeout, rate
\* limit, connection error, or an explicit provider error), the content is
\* not JSON, or the JSON has no criteria_evaluations array.
TransientFailures == { "timeout", "rate_limit", "connection" }
MalformedFailures == { "bad_json", "missing_criteria" }
JudgeFailures == TransientFailures \cup { "provider_error" } \cup MalformedFailures

NoResult == [overall_score |-> Null, summary |-> "", criteria_evaluations |-> << >>]

NoResponse == [status |-> 0, body |-> "none", detail |-> "none"]

\* Two signed-in users.  The browser that uploads and polls is A's; the
\* other caller of the edge function is B.  Neither the request nor the
\* handler carries the user further than the Authorization header.
UserOf == [c \in Clients |-> IF c \in Pollers THEN "A" ELSE "B"]

NoInterview == [status |-> "none", transcript_storage_path |-> 0, user_id |-> "none"]

\* The arguments of an upload: a file of a size in MB and a candidate name.
\* The sizes lie on either side of the application's maximum and of the
\* bucket's limit.
MAX_FILE_SIZE_MB == 5
fileSizeLimit == 50
Files == { [size |-> mb] : mb \in {1, 6, 51} }
CandidateNames == { "", "Ada" }

\* No upload call is running.
NoFile == [size |-> 0]
NoName == "n/a"

\* File names given to the FileUpload component, as character sequences:
\* the two accepted extensions, another extension, an upper-case extension
\* and a name shorter than an extension.
FileNames ==
    { << "a", ".", "t", "x", "t" >>,
      << "a", ".", "m", "d" >>,
      << "a", ".", "p", "d", "f" >>,
      << "a", ".", "T", "X", "T" >>,
      << "m", "d" >> }

\* No file came with the event.
NoFileName == << >>

\* String.prototype.endsWith.
EndsWith(name, suffix) ==
    /\ Len(name) >= Len(suffix)
    /\ SubSeq(name, Len(name) - Len(suffix) + 1, Len(name)) = suffix

\* Results uploadTranscript of api.ts resolves with.
UploadResults == { "result A", "result B" }

\* Messages uploadTranscript of api.ts throws with (always an ApiError).
UploadErrors ==
    { "Upload failed", "An unexpected error occurred during upload",
      "Evaluation timed out" }

\* ------------------------------------------------------------------- state

VARIABLES
    interviews,            \* table interviews: id -> row
    storage,               \* bucket interview-transcripts: set of paths
    evaluation_results,    \* table evaluation_results, in insertion order
    criteria_evaluations,  \* table criteria_evaluations, in insertion order
    judgeCalls,            \* per interview: evaluateTranscript invocations
    upPc, upPath,          \* uploadTranscript of the upload service
    upFile, upName,        \* its arguments file and candidateName
    pc,                    \* per client: position in poll loop / handler
    attempts,              \* per client: pollEvaluationResults.attempts
    req,                   \* per client: interview_id of the request
    interview,             \* per handler: the row read at the start
    evaluationResult,      \* per handler: what evaluateTranscript returned
    resp,                  \* per handler: the HTTP response
    dragActive, uploading, error, progress,   \* FileUpload: its useState
    fuFile,                \* FileUpload: files[0] of the latest drop/change
    fuEvents,              \* FileUpload: drop/change events handled
    fuCalls,               \* FileUpload: files passed to uploadTranscript, in order
    fuPending,             \* FileUpload: processFile calls at their await
    fuSettled,             \* FileUpload: how the uploadTranscript calls ended
    fuCompleted,           \* FileUpload: results given to onEvaluationComplete
    plPc,                  \* pollEvaluationResults alone: position
    plMax,                 \* its parameter maxAttempts
    plAttempts,            \* its local attempts
    plResponses,           \* what its evaluateTranscript calls gave, in order
    plOutcome,             \* what it returned or threw
    authUser, authLoading, authError,   \* AuthProvider: its useState
    authToken,             \* localStorage 'supabase_auth_token'
    authSession,           \* the session the Supabase client holds
    authRequests           \* API requests made: the user shown, the header sent

appVars == << interviews, storage, evaluation_results, criteria_evaluations,
              judgeCalls, upPc, upPath, upFile, upName, pc, attempts, req,
              interview, evaluationResult, resp >>

fuVars == << dragActive, uploading, error, progress, fuFile, fuEvents,
             fuCalls, fuPending, fuSettled, fuCompleted >>

plVars == << plPc, plMax, plAttempts, plResponses, plOutcome >>

auVars == << authUser, authLoading, authError, authToken, authSession,
             authRequests >>

vars == << appVars, fuVars, plVars, auVars >>

dbVars == << interviews, evaluation_results, criteria_evaluations >>
upVars == << upPc, upPath, upFile, upName, storage >>

\* ------------------------------------------------- JavaScript numbers
\* The scores are JavaScript numbers (IEEE-754 binary64) and the code adds,
\* divides and multiplies them as such.  A number is modelled exactly, as
\* sign * m * 2^e with m a natural number of at most 53 bits, and every
\* operation rounds to nearest, ties to even, as the hardware does.  The
\* naturals are little-endian sequences of digits in base 2^15.

Base == 32768
LimbBits == 15
MantissaBits == 53

\* Extra bits a quotient is computed with before it is rounded.
GuardBits == 75

RECURSIVE BigNorm(_)
BigNorm(a) ==
    IF a # << >> /\ a[Len(a)] = 0 THEN BigNorm(SubSeq(a, 1, Len(a) - 1)) ELSE a

RECURSIVE BigFromInt(_)
BigFromInt(n) ==
    IF n = 0 THEN << >> ELSE << n % Base >> \o BigFromInt(n \div Base)

RECURSIVE BigToInt(_)
BigToInt(a) ==
    IF a = << >> THEN 0 ELSE Head(a) + Base * BigToInt(Tail(a))

BigRest(a) == IF a = << >> THEN << >> ELSE Tail(a)
BigLow(a) == IF a = << >> THEN 0 ELSE Head(a)

RECURSIVE BigAddCarry(_, _, _)
BigAddCarry(a, b, c) ==
    IF a = << >> /\ b = << >>
    THEN IF c = 0 THEN << >> ELSE << c >>
    ELSE LET x == BigLow(a) + BigLow(b) + c
         IN << x % Base >> \o BigAddCarry(BigRest(a), BigRest(b), x \div Base)

BigAdd(a, b) == BigAddCarry(a, b, 0)

\* a - b for a >= b.
RECURSIVE BigSubBorrow(_, _, _)
BigSubBorrow(a, b, c) ==
    IF a = << >> THEN << >>
    ELSE LET x == BigLow(a) - BigLow(b) - c
         IN << x % Base >> \o
            BigSubBorrow(BigRest(a), BigRest(b), IF x < 0 THEN 1 ELSE 0)

BigSub(a, b) == BigNorm(BigSubBorrow(a, b, 0))

\* -1, 0 or 1 as a < b, a = b or a > b (both normalised).
RECURSIVE BigCmp(_, _)
BigCmp(a, b) ==
    IF Len(a) # Len(b) THEN (IF Len(a) < Len(b) THEN 0 - 1 ELSE 1)
    ELSE IF a = << >> THEN 0
    ELSE IF a[Len(a)] # b[Len(b)]
         THEN (IF a[Len(a)] < b[Len(b)] THEN 0 - 1 ELSE 1)
    ELSE BigCmp(SubSeq(a, 1, Len(a) - 1), SubSeq(b, 1, Len(b) - 1))

\* a * k + c for 0 <= k <= Base.
RECURSIVE BigMulCarry(_, _, _)
BigMulCarry(a, k, c) ==
    IF a = << >>
    THEN BigFromInt(c)
    ELSE LET x == Head(a) * k + c
         IN << x % Base >> \o BigMulCarry(Tail(a), k, x \div Base)

BigMulSmall(a, k) == BigNorm(BigMulCarry(a, k, 0))

\* Quotient and remainder of a by k, 0 < k <= Base.
RECURSIVE BigDivStep(_, _)
BigDivStep(a, k) ==
    IF a = << >> THEN [q |-> << >>, r |-> 0]
    ELSE LET high == BigDivStep(Tail(a), k)
             cur == high.r * Base + Head(a)
         IN [q |-> << cur \div k >> \o high.q, r |-> cur % k]

BigDivRem(a, k) ==
    LET d == BigDivStep(a, k) IN [q |-> BigNorm(d.q), r |-> d.r]

\* a * 2^n.
BigShl(a, n) ==
    IF a = << >> THEN << >>
    ELSE [i \in 1..(n \div LimbBits) |-> 0] \o BigMulSmall(a, 2 ^ (n % LimbBits))

\* floor(a / 2^n), and whether bits were lost.
BigShr(a, n) ==
    LET limbs == n \div LimbBits
        kept == IF limbs >= Len(a) THEN << >> ELSE SubSeq(a, limbs + 1, Len(a))
        lostLimbs == \E i \in 1..Len(a) : i <= limbs /\ a[i] # 0
        d == BigDivRem(kept, 2 ^ (n % LimbBits))
    IN [q |-> d.q, sticky |-> lostLimbs \/ d.r # 0]

RECURSIVE BitLen(_)
BitLen(n) == IF n = 0 THEN 0 ELSE 1 + BitLen(n \div 2)

BigBitLen(a) ==
    IF a = << >> THEN 0 ELSE LimbBits * (Len(a) - 1) + BitLen(a[Len(a)])

BigIsOdd(a) == a # << >> /\ a[1] % 2 = 1

Dbl(sign, m, e) == [s |-> sign, m |-> m, e |-> e]

\* The binary64 nearest to sign * (m + f) * 2^e, where 0 <= f < 1 and f # 0
\* exactly when sticky; ties go to the even mantissa.
DblRound(sign, m, e, sticky) ==
    LET len == BigBitLen(m)
    IN IF len <= MantissaBits
       THEN Dbl(sign, m, e)
       ELSE LET drop == len - MantissaBits
                withRound == BigShr(m, drop - 1)
                roundBit == BigIsOdd(withRound.q)
                q == BigDivRem(withRound.q, 2).q
                rest == withRound.sticky \/ sticky
                up == roundBit /\ (rest \/ BigIsOdd(q))
            IN Dbl(sign, IF up THEN BigAdd(q, << 1 >>) ELSE q, e + drop)

\* The number a JSON literal with one decimal digit parses to: d / 10.
DblFromTenths(d) ==
    LET mag == IF d < 0 THEN 0 - d ELSE d
        quot == BigDivRem(BigShl(BigFromInt(mag), GuardBits), 10)
    IN DblRound(IF d < 0 THEN 0 - 1 ELSE 1, quot.q, 0 - GuardBits, quot.r # 0)

\* x + y.
DblAdd(x, y) ==
    LET e == IF x.e < y.e THEN x.e ELSE y.e
        mx == BigShl(x.m, x.e - e)
        my == BigShl(y.m, y.e - e)
    IN IF x.s = y.s THEN DblRound(x.s, BigAdd(mx, my), e, FALSE)
       ELSE IF BigCmp(mx, my) >= 0 THEN DblRound(x.s, BigSub(mx, my), e, FALSE)
       ELSE DblRound(y.s, BigSub(my, mx), e, FALSE)

\* x / n for an integer n > 0.
DblDivInt(x, n) ==
    LET quot == BigDivRem(BigShl(x.m, GuardBits), n)
    IN DblRound(x.s, quot.q, x.e - GuardBits, quot.r # 0)

\* x * k for an integer k > 0.
DblMulInt(x, k) == DblRound(x.s, BigMulSmall(x.m, k), x.e, FALSE)

\* Math.round(x): floor(x + 1/2), computed exactly.
MathRound(x) ==
    IF x.e >= 0 THEN x.s * BigToInt(BigShl(x.m, x.e))
    ELSE LET k == 0 - x.e
             half == BigShl(<< 1 >>, k - 1)
         IN IF x.s = 1
            THEN BigToInt(BigShr(BigAdd(x.m, half), k).q)
            ELSE IF BigCmp(x.m, half) <= 0 THEN 0
            ELSE LET down == BigShr(BigSub(x.m, half), k)
                 IN 0 - (BigToInt(down.q) + IF down.sticky THEN 1 ELSE 0)

DblZero == Dbl(1, << >>, 0)

\* ----------------------------------------------------------------- helpers

\* The exact sum of the scores, in tenths.
RECURSIVE SumScores(_)
SumScores(cs) ==
    IF cs = << >> THEN 0 ELSE Head(cs).score + SumScores(Tail(cs))

IsNumeric(cs) == \A k \in 1..Len(cs) : cs[k].score # NonNumeric

\* scores.reduce((sum, score) => sum + score, 0): the scores are added from
\* left to right, each sum rounded to a binary64.
RECURSIVE DblSum(_, _)
DblSum(cs, acc) ==
    IF cs = << >> THEN acc
    ELSE DblSum(Tail(cs), DblAdd(acc, DblFromTenths(Head(cs).score)))

\* overall_score of evaluateTranscript, in tenths:
\* Math.round(sum / length * 10) / 10.  An empty array gives 0 / 0 and a
\* non-numeric score gives a string sum: NaN in both cases.
OverallScore(cs) ==
    IF cs = << >> \/ ~IsNumeric(cs) THEN Null
    ELSE MathRound(DblMulInt(DblDivInt(DblSum(cs, DblZero), Len(cs)), 10))

RowsOf(table, id) == SelectSeq(table, LAMBDA r : r.interview_id = id)

Exists(id) == id \in InterviewIds /\ interviews[id].status # "none"

\* .update({status}).eq('id', id): changes the row when the write succeeds
\* and the row exists; the handler does not look at the outcome.
UpdateStatus(id, s, ok) ==
    IF ok /\ Exists(id)
    THEN [interviews EXCEPT ![id].status = s]
    ELSE interviews

Response(st, b, d) == [status |-> st, body |-> b, detail |-> d]

\* getPastEvaluations, Supabase-direct branch (api.ts lines 260-299): all
\* rows of evaluation_results, newest first, each with the criteria rows of
\* its interview.  The status of the interview is not read.
getPastEvaluations ==
    [k \in 1..Len(evaluation_results) |->
        LET evaluation == evaluation_results[Len(evaluation_results) + 1 - k]
            criteriaEvals == RowsOf(criteria_evaluations, evaluation.interview_id)
        IN [interview_id |-> evaluation.interview_id,
            overallScore |-> evaluation.overall_score,
            summary |-> evaluation.summary,
            criteria |-> [j \in 1..Len(criteriaEvals) |->
                            [name |-> criteriaEvals[j].criterion_name,
                             score |-> criteriaEvals[j].score]]]]

\* getInterviewStatus: select the status column of the row; the read
\* failing or finding no row is thrown.  Nothing is written and nothing is
\* awaited but the read.  No code calls it.
getInterviewStatus(interviewId, ok) ==
    IF ok /\ Exists(interviewId) THEN interviews[interviewId].status ELSE "throws"

\* ------------------------------------------------------------------- Init

\* AuthProvider as mounted in a browser that never signed in (part_019
\* lines 145-147): no user, loading, no error; no token, no session.
AuthInit ==
    /\ authUser = "null"
    /\ authLoading = TRUE
    /\ authError = "null"
    /\ authToken = "null"
    /\ authSession = "null"
    /\ authRequests = << >>

\* pollEvaluationResults not called.
PollInit ==
    /\ plPc = "idle"
    /\ plMax = 0
    /\ plAttempts = 0
    /\ plResponses = << >>
    /\ plOutcome = "none"

\* FileUpload as mounted (lines 9-12): nothing dragged, nothing uploading,
\* no error and no progress text.
FileUploadInit ==
    /\ dragActive = FALSE
    /\ uploading = FALSE
    /\ error = "null"
    /\ progress = "null"
    /\ fuFile = NoFileName
    /\ fuEvents = 0
    /\ fuCalls = << >>
    /\ fuPending = << >>
    /\ fuSettled = << >>
    /\ fuCompleted = << >>

Init ==
    /\ interviews = [i \in InterviewIds |-> NoInterview]
    /\ storage = {}
    /\ evaluation_results = << >>
    /\ criteria_evaluations = << >>
    /\ judgeCalls = [i \in InterviewIds |-> 0]
    /\ upPc = "idle"
    /\ upPath = 0
    /\ upFile = NoFile
    /\ upName = NoName
    /\ pc = [c \in Clients |-> "idle"]
    /\ attempts = [c \in Clients |-> 0]
    /\ req = [c \in Clients |-> NoId]
    /\ interview = [c \in Clients |-> NoInterview]
    /\ evaluationResult = [c \in Clients |-> NoResult]
    /\ resp = [c \in Clients |-> NoResponse]
    /\ FileUploadInit
    /\ PollInit
    /\ AuthInit


\* --------------------------------------------------- upload service (browser)

\* uploadTranscript, first await: uploadTranscriptToStorage.  The file name
\* carries a timestamp, so each upload writes a fresh path; a storage error
\* (the bucket refuses a file above its size limit) is thrown on to the
\* caller.  Neither the file nor the candidate name is examined.
UploadTranscriptToStorage(file, candidateName, ok) ==
    /\ upPc = "idle"
    /\ Cardinality(storage) < MaxInterviews
    /\ IF ok /\ file.size <= fileSizeLimit
       THEN /\ storage' = storage \cup { Cardinality(storage) + 1 }
            /\ upPath' = Cardinality(storage) + 1
            /\ upFile' = file
            /\ upName' = candidateName
            /\ upPc' = "record"
       ELSE UNCHANGED upVars
    /\ UNCHANGED << dbVars, judgeCalls, pc, attempts, req, interview,
                    evaluationResult, resp >>
    /\ UNCHANGED << fuVars, plVars, auVars >>

\* createInterviewRecord with the row inserted in status 'processing'.
CreateInterviewRecord_Processing(user, ok) ==
    /\ upPc = "record"
    /\ upPc' = "idle"
    /\ upPath' = 0
    /\ upFile' = NoFile
    /\ upName' = NoName
    /\ IF user /\ ok
       THEN LET id == CHOOSE i \in InterviewIds :
                        /\ ~Exists(i)
                        /\ \A j \in InterviewIds : ~Exists(j) => i <= j
            IN interviews' = [interviews EXCEPT ![id] =
                     [status |-> "processing", transcript_storage_path |-> upPath,
                      user_id |-> UserOf["poll"]]]
       ELSE UNCHANGED interviews
    /\ UNCHANGED << storage, evaluation_results, criteria_evaluations,
                    judgeCalls, pc, attempts, req, interview,
                    evaluationResult, resp >>
    /\ UNCHANGED << fuVars, plVars, auVars >>

\* uploadTranscript, second await: createInterviewRecord.  Throws when no
\* user is signed in or when the insert fails; otherwise the database
\* creates the row with status 'uploaded'.
CreateInterviewRecord(user, ok) ==
    /\ upPc = "record"
    /\ upPc' = "idle"
    /\ upPath' = 0
    /\ upFile' = NoFile
    /\ upName' = NoName
    /\ IF user /\ ok
       THEN LET id == CHOOSE i \in InterviewIds :
                        /\ ~Exists(i)
                        /\ \A j \in InterviewIds : ~Exists(j) => i <= j
            IN interviews' = [interviews EXCEPT ![id] =
                     [status |-> "uploaded", transcript_storage_path |-> upPath,
                      user_id |-> UserOf["poll"]]]
       ELSE UNCHANGED interviews
    /\ UNCHANGED << storage, evaluation_results, criteria_evaluations,
                    judgeCalls, pc, attempts, req, interview,
                    evaluationResult, resp >>
    /\ UNCHANGED << fuVars, plVars, auVars >>

\* ------------------------------------------------ polling loop (browser)

\* A caller sends its first evaluate request; pollEvaluationResults starts
\* with attempts = 0.
PollStart(c, id) ==
    /\ pc[c] = "idle"
    /\ pc' = [pc EXCEPT ![c] = "request"]
    /\ attempts' = [attempts EXCEPT ![c] = 0]
    /\ req' = [req EXCEPT ![c] = id]
    /\ UNCHANGED << dbVars, upVars, judgeCalls, interview, evaluationResult, resp >>
    /\ UNCHANGED << fuVars, plVars, auVars >>

\* ------------------------------------------------ edge function handler

\* The handler returns a response; its locals go with it.
Reply(c, r) ==
    /\ resp' = [resp EXCEPT ![c] = r]
    /\ pc' = [pc EXCEPT ![c] = "respond"]
    /\ interview' = [interview EXCEPT ![c] = NoInterview]
    /\ evaluationResult' = [evaluationResult EXCEPT ![c] = NoResult]

\* The handler without the test of the interview lookup (lines 76-81).
HandlerSelect_Unchecked(c, ok) ==
    /\ pc[c] = "request"
    /\ IF req[c] = NoId
       THEN Reply(c, Response(400, "Missing interview_id parameter", "none"))
       ELSE /\ interview' = [interview EXCEPT ![c] =
                   IF ok /\ Exists(req[c]) THEN interviews[req[c]] ELSE NoInterview]
            /\ pc' = [pc EXCEPT ![c] = "update_processing"]
            /\ UNCHANGED << resp, evaluationResult >>
    /\ UNCHANGED << dbVars, upVars, judgeCalls, attempts, req >>
    /\ UNCHANGED << fuVars, plVars, auVars >>

\* Lines 53-81: parse the body, reject a missing interview_id with 400,
\* read the interview row, answer 404 when the read fails or finds no row.
HandlerSelect(c, ok) ==
    /\ pc[c] = "request"
    /\ IF req[c] = NoId
       THEN Reply(c, Response(400, "Missing interview_id parameter", "none"))
       ELSE IF ~ok \/ ~Exists(req[c])
       THEN Reply(c, Response(404, "Interview not found", "none"))
       ELSE /\ interview' = [interview EXCEPT ![c] = interviews[req[c]]]
            /\ pc' = [pc EXCEPT ![c] = "update_processing"]
            /\ UNCHANGED << resp, evaluationResult >>
    /\ UNCHANGED << dbVars, upVars, judgeCalls, attempts, req >>
    /\ UNCHANGED << fuVars, plVars, auVars >>

\* Lines 83-87: set status to 'processing', whatever the status read was;
\* the outcome of the write is not examined.
HandlerUpdateProcessing(c, ok) ==
    /\ pc[c] = "update_processing"
    /\ interviews' = UpdateStatus(req[c], "processing", ok)
    /\ pc' = [pc EXCEPT ![c] = "download"]
    /\ UNCHANGED << evaluation_results, criteria_evaluations, upVars,
                    judgeCalls, attempts, req, interview, evaluationResult, resp >>
    /\ UNCHANGED << fuVars, plVars, auVars >>

\* Lines 89-111: download the transcript; 404 when that fails, otherwise
\* evaluateTranscript is called (the Judge is now in flight).
HandlerDownload(c, ok) ==
    /\ pc[c] = "download"
    /\ IF ok /\ interview[c].transcript_storage_path \in storage
       THEN /\ pc' = [pc EXCEPT ![c] = "judge"]
            /\ judgeCalls' = [judgeCalls EXCEPT ![req[c]] = @ + 1]
            /\ UNCHANGED << resp, interview, evaluationResult >>
       ELSE /\ Reply(c, Response(404, "Transcript not found", "none"))
            /\ UNCHANGED judgeCalls
    /\ UNCHANGED << dbVars, upVars, attempts, req >>
    /\ UNCHANGED << fuVars, plVars, auVars >>

\* evaluateTranscript (lines 142-265) throws: every failure is rethrown as
\* 'Evaluation failed: <message>' and the handler's catch answers 500 with
\* that message.
JudgeThrows(c, failure) ==
    /\ pc[c] = "judge"
    /\ Reply(c, Response(500, "Evaluation failed", failure))
    /\ UNCHANGED << dbVars, upVars, judgeCalls, attempts, req >>
    /\ UNCHANGED << fuVars, plVars, auVars >>

\* evaluateTranscript returns: the overall score is computed from whatever
\* criteria came back, and nothing of the answer is validated.
JudgeReturns(c, a) ==
    /\ pc[c] = "judge"
    /\ evaluationResult' = [evaluationResult EXCEPT ![c] =
           [overall_score |-> OverallScore(a.criteria_evaluations),
            summary |-> a.summary,
            criteria_evaluations |-> a.criteria_evaluations]]
    /\ pc' = [pc EXCEPT ![c] = "store_result"]
    /\ UNCHANGED << dbVars, upVars, judgeCalls, attempts, req, interview, resp >>
    /\ UNCHANGED << fuVars, plVars, auVars >>

StoreFailed == Response(500, "Failed to store evaluation results", "none")

\* storeEvaluationResults, first insert (lines 271-283).
StoreResult(c, ok) ==
    /\ pc[c] = "store_result"
    /\ IF ok
       THEN /\ evaluation_results' = Append(evaluation_results,
                   [interview_id |-> req[c],
                    overall_score |-> evaluationResult[c].overall_score,
                    summary |-> evaluationResult[c].summary,
                    result_data |-> evaluationResult[c].criteria_evaluations])
            /\ pc' = [pc EXCEPT ![c] = "store_criteria"]
            /\ UNCHANGED << resp, interview, evaluationResult >>
       ELSE /\ Reply(c, StoreFailed)
            /\ UNCHANGED evaluation_results
    /\ UNCHANGED << interviews, criteria_evaluations, upVars, judgeCalls,
                    attempts, req >>
    /\ UNCHANGED << fuVars, plVars, auVars >>

CriteriaData(c) ==
    [k \in 1..Len(evaluationResult[c].criteria_evaluations) |->
        [interview_id |-> req[c],
         criterion_name |-> evaluationResult[c].criteria_evaluations[k].criterion,
         score |-> evaluationResult[c].criteria_evaluations[k].score]]

\* storeEvaluationResults, second insert (lines 285-299): one statement
\* for all criteria rows; it fails as a whole, and always does when a score
\* is not a number (the column is NUMERIC).
StoreCriteria(c, ok) ==
    /\ pc[c] = "store_criteria"
    /\ IF ok /\ IsNumeric(evaluationResult[c].criteria_evaluations)
       THEN /\ criteria_evaluations' = criteria_evaluations \o CriteriaData(c)
            /\ pc' = [pc EXCEPT ![c] = "update_evaluated"]
            /\ UNCHANGED << resp, interview, evaluationResult >>
       ELSE /\ Reply(c, StoreFailed)
            /\ UNCHANGED criteria_evaluations
    /\ UNCHANGED << interviews, evaluation_results, upVars, judgeCalls,
                    attempts, req >>
    /\ UNCHANGED << fuVars, plVars, auVars >>

\* Lines 116-130: set status to 'evaluated' (outcome not examined) and
\* answer 200 with status 'success' and the evaluation.
HandlerUpdateEvaluated(c, ok) ==
    /\ pc[c] = "update_evaluated"
    /\ interviews' = UpdateStatus(req[c], "evaluated", ok)
    /\ Reply(c, Response(200, "success", "none"))
    /\ UNCHANGED << evaluation_results, criteria_evaluations, upVars,
                    judgeCalls, attempts, req >>
    /\ UNCHANGED << fuVars, plVars, auVars >>

\* ------------------------------------------------ polling loop, continued

\* pollEvaluationResults lines 104-141 on the handler's answer.  A 'success'
\* answer is returned.  Every other answer of the edge function is a non-ok
\* response, which evaluateTranscript (api.ts) throws as ApiError: the catch
\* rethrows on the last attempt and otherwise counts the attempt and sends
\* the request again.  While the next attempt runs, resp still holds the
\* answer to the previous one (nothing reads it; the properties do).
PollHandle(c) ==
    /\ c \in Pollers
    /\ pc[c] = "respond"
    /\ IF resp[c].status = 200 /\ resp[c].body = "success"
       THEN /\ pc' = [pc EXCEPT ![c] = "returned"]
            /\ resp' = [resp EXCEPT ![c] = NoResponse]
            /\ UNCHANGED attempts
       ELSE IF attempts[c] >= maxAttempts - 1
       THEN /\ pc' = [pc EXCEPT ![c] = "thrown"]
            /\ resp' = [resp EXCEPT ![c] = NoResponse]
            /\ UNCHANGED attempts
       ELSE /\ attempts' = [attempts EXCEPT ![c] = @ + 1]
            /\ pc' = [pc EXCEPT ![c] = "request"]
            /\ UNCHANGED resp
    /\ UNCHANGED << dbVars, upVars, judgeCalls, req, interview, evaluationResult >>
    /\ UNCHANGED << fuVars, plVars, auVars >>

\* evaluateTranscript (api.ts lines 165-229) called once: a non-ok response
\* is thrown as ApiError, an ok response is returned.
DirectHandle(c) ==
    /\ c \notin Pollers
    /\ pc[c] = "respond"
    /\ pc' = [pc EXCEPT ![c] = IF resp[c].status = 200 THEN "returned" ELSE "thrown"]
    /\ resp' = [resp EXCEPT ![c] = NoResponse]
    /\ UNCHANGED << dbVars, upVars, judgeCalls, attempts, req, interview,
                    evaluationResult >>
    /\ UNCHANGED << fuVars, plVars, auVars >>

\* ------------------------------------------------------------------- Next

Next ==
    \/ \E file \in Files, candidateName \in CandidateNames, ok \in BOOLEAN :
           UploadTranscriptToStorage(file, candidateName, ok)
    \/ \E user \in BOOLEAN, ok \in BOOLEAN : CreateInterviewRecord(user, ok)
    \/ \E c \in Clients, id \in InterviewIds \cup {NoId} : PollStart(c, id)
    \/ \E c \in Clients, ok \in BOOLEAN : HandlerSelect(c, ok)
    \/ \E c \in Clients, ok \in BOOLEAN : HandlerUpdateProcessing(c, ok)
    \/ \E c \in Clients, ok \in BOOLEAN : HandlerDownload(c, ok)
    \/ \E c \in Clients, f \in JudgeFailures : JudgeThrows(c, f)
    \/ \E c \in Clients, a \in JudgeAnswers : JudgeReturns(c, a)
    \/ \E c \in Clients, ok \in BOOLEAN : StoreResult(c, ok)
    \/ \E c \in Clients, ok \in BOOLEAN : StoreCriteria(c, ok)
    \/ \E c \in Clients, ok \in BOOLEAN : HandlerUpdateEvaluated(c, ok)
    \/ \E c \in Clients : PollHandle(c)
    \/ \E c \in Clients : DirectHandle(c)

Spec == Init /\ [][Next]_vars


\* The upload service next to a single caller of the edge function: every
\* upload, and one evaluateTranscript call with all the handler can do.
UploadNext ==
    \/ \E file \in Files, candidateName \in CandidateNames, ok \in BOOLEAN :
           UploadTranscriptToStorage(file, candidateName, ok)
    \/ \E user \in BOOLEAN, ok \in BOOLEAN : CreateInterviewRecord(user, ok)
    \/ \E id \in InterviewIds \cup {NoId} : PollStart("direct", id)
    \/ \E ok \in BOOLEAN : HandlerSelect("direct", ok)
    \/ \E ok \in BOOLEAN : HandlerUpdateProcessing("direct", ok)
    \/ \E ok \in BOOLEAN : HandlerDownload("direct", ok)
    \/ \E f \in JudgeFailures : JudgeThrows("direct", f)
    \/ \E a \in JudgeAnswers : JudgeReturns("direct", a)
    \/ \E ok \in BOOLEAN : StoreResult("direct", ok)
    \/ \E ok \in BOOLEAN : StoreCriteria("direct", ok)
    \/ \E ok \in BOOLEAN : HandlerUpdateEvaluated("direct", ok)
    \/ DirectHandle("direct")

UploadSpec == Init /\ [][UploadNext]_vars


\* ------------------------------------------- FileUpload component (browser)

\* handleDrag (lines 14-23).
HandleDrag(type) ==
    /\ dragActive' = IF type \in {"dragenter", "dragover"} THEN TRUE
                     ELSE IF type = "dragleave" THEN FALSE
                     ELSE dragActive
    /\ UNCHANGED << uploading, error, progress, fuFile, fuEvents, fuCalls,
                    fuPending, fuSettled, fuCompleted, appVars, plVars, auVars >>

\* processFile up to its await (lines 52-59): uploading, no error, the
\* progress text, and uploadTranscript(file) called.
ProcessFile(file) ==
    /\ uploading' = TRUE
    /\ error' = "null"
    /\ progress' = "Uploading file..."
    /\ fuCalls' = Append(fuCalls, file)
    /\ fuPending' = Append(fuPending, file)

\* The file check of handleDrop and handleChange (lines 29-37, 42-49):
\* nothing without a file, processFile for a name ending in .txt or .md,
\* the error otherwise.
HandleFiles(files) ==
    /\ fuEvents' = fuEvents + 1
    /\ UNCHANGED << fuSettled, fuCompleted >>
    /\ IF Len(files) > 0
       THEN /\ fuFile' = files[1]
            /\ IF \/ EndsWith(files[1], << ".", "t", "x", "t" >>)
                  \/ EndsWith(files[1], << ".", "m", "d" >>)
               THEN ProcessFile(files[1])
               ELSE /\ error' = "Please upload a .txt or .md file"
                    /\ UNCHANGED << uploading, progress, fuCalls, fuPending >>
       ELSE /\ fuFile' = NoFileName
            /\ UNCHANGED << uploading, error, progress, fuCalls, fuPending >>

\* handleDrop with every file sent to processFile.
HandleDrop_Unchecked(files) ==
    /\ ~uploading
    /\ fuEvents < MaxEvents
    /\ dragActive' = FALSE
    /\ fuEvents' = fuEvents + 1
    /\ UNCHANGED << fuSettled, fuCompleted >>
    /\ IF Len(files) > 0
       THEN /\ fuFile' = files[1]
            /\ ProcessFile(files[1])
       ELSE /\ fuFile' = NoFileName
            /\ UNCHANGED << uploading, error, progress, fuCalls, fuPending >>
    /\ UNCHANGED << appVars, plVars, auVars >>

\* handleDrop (lines 24-38).  The drop zone takes no pointer events while
\* uploading is set (line 81).
HandleDrop(files) ==
    /\ ~uploading
    /\ fuEvents < MaxEvents
    /\ dragActive' = FALSE
    /\ HandleFiles(files)
    /\ UNCHANGED << appVars, plVars, auVars >>

\* handleChange with the input left enabled during an upload.
HandleChange_Enabled(files) ==
    /\ fuEvents < MaxEvents
    /\ UNCHANGED dragActive
    /\ HandleFiles(files)
    /\ UNCHANGED << appVars, plVars, auVars >>

\* handleChange (lines 40-50).  The input is disabled while uploading is
\* set (line 92).
HandleChange(files) ==
    /\ ~uploading
    /\ fuEvents < MaxEvents
    /\ UNCHANGED dragActive
    /\ HandleFiles(files)
    /\ UNCHANGED << appVars, plVars, auVars >>

\* The k-th pending call leaves the await.
Settle(k, outcome, value) ==
    /\ k \in DOMAIN fuPending
    /\ fuSettled' = Append(fuSettled,
           [file |-> fuPending[k], outcome |-> outcome, value |-> value])
    /\ fuPending' = SubSeq(fuPending, 1, k - 1) \o
                    SubSeq(fuPending, k + 1, Len(fuPending))

\* processFile after uploadTranscript resolved (lines 59-62, 69-72):
\* the result goes to onEvaluationComplete, then the finally block.
UploadResolves(k, result) ==
    /\ Settle(k, "resolved", result)
    /\ fuCompleted' = Append(fuCompleted, result)
    /\ uploading' = FALSE
    /\ progress' = "null"
    /\ UNCHANGED << dragActive, error, fuFile, fuEvents, fuCalls, appVars, plVars, auVars >>

\* processFile with the finally block left out of the failure path.
UploadRejects_NoFinally(k, message) ==
    /\ Settle(k, "rejected", message)
    /\ error' = message
    /\ UNCHANGED << uploading, progress >>
    /\ UNCHANGED << dragActive, fuFile, fuEvents, fuCalls, fuCompleted, appVars, plVars, auVars >>

\* processFile after uploadTranscript rejected (lines 63-72): the message
\* of the error becomes the error text, then the finally block.
UploadRejects(k, message) ==
    /\ Settle(k, "rejected", message)
    /\ error' = message
    /\ uploading' = FALSE
    /\ progress' = "null"
    /\ UNCHANGED << dragActive, fuFile, fuEvents, fuCalls, fuCompleted, appVars, plVars, auVars >>

FileLists == { << >> } \cup { << name >> : name \in FileNames }

FileUploadNext ==
    \/ \E type \in {"dragenter", "dragover", "dragleave"} : HandleDrag(type)
    \/ \E files \in FileLists : HandleDrop(files)
    \/ \E files \in FileLists : HandleChange(files)
    \/ \E k \in 1..MaxEvents, result \in UploadResults : UploadResolves(k, result)
    \/ \E k \in 1..MaxEvents, message \in UploadErrors : UploadRejects(k, message)

FileUploadSpec == Init /\ [][FileUploadNext]_vars


\* ------------------------------------- pollEvaluationResults on its own

\* What one evaluateTranscript call can give the loop: a response with
\* status 'success' (with or without its criteria_evaluations array),
\* 'processing' or 'partial', any other status, or a thrown ApiError.
PollResponses ==
    { "success", "success_no_criteria", "processing", "partial", "error",
      "thrown" }

\* What the catch block receives for a response (lines 119, 132, 133).
CaughtError(r) ==
    IF r = "success_no_criteria" THEN "TypeError"
    ELSE IF r = "error" THEN "Evaluation failed"
    ELSE "ApiError"

\* pollEvaluationResults is called (lines 99-100).
PollCall(max) ==
    /\ plPc = "idle"
    /\ plPc' = "loop"
    /\ plMax' = max
    /\ plAttempts' = 0
    /\ UNCHANGED << plResponses, plOutcome, appVars, fuVars, auVars >>

\* One pass of the while loop with the catch block rethrowing on every
\* attempt but the last.
PollIteration_RetryForever(r) ==
    /\ plPc = "loop"
    /\ plAttempts < plMax
    /\ plResponses' = Append(plResponses, r)
    /\ IF r = "success"
       THEN /\ plPc' = "returned"
            /\ plOutcome' = "result"
            /\ UNCHANGED plAttempts
       ELSE IF r \in {"processing", "partial"}
       THEN /\ plAttempts' = plAttempts + 1
            /\ UNCHANGED << plPc, plOutcome >>
       ELSE UNCHANGED << plPc, plOutcome, plAttempts >>
    /\ UNCHANGED << plMax, appVars, fuVars, auVars >>

\* One pass of the while loop (lines 102-141): the call, then return on
\* 'success', count and go on for 'processing' or 'partial', and the catch
\* block for everything thrown inside the try, which rethrows on the last
\* attempt and counts otherwise.
PollIteration(r) ==
    /\ plPc = "loop"
    /\ plAttempts < plMax
    /\ plResponses' = Append(plResponses, r)
    /\ IF r = "success"
       THEN /\ plPc' = "returned"
            /\ plOutcome' = "result"
            /\ UNCHANGED plAttempts
       ELSE IF r \in {"processing", "partial"}
       THEN /\ plAttempts' = plAttempts + 1
            /\ UNCHANGED << plPc, plOutcome >>
       ELSE IF plAttempts >= plMax - 1
       THEN /\ plPc' = "thrown"
            /\ plOutcome' = CaughtError(r)
            /\ UNCHANGED plAttempts
       ELSE /\ plAttempts' = plAttempts + 1
            /\ UNCHANGED << plPc, plOutcome >>
    /\ UNCHANGED << plMax, appVars, fuVars, auVars >>

\* The loop condition fails (lines 102, 144).
PollTimesOut ==
    /\ plPc = "loop"
    /\ plAttempts >= plMax
    /\ plPc' = "thrown"
    /\ plOutcome' = "Evaluation timed out"
    /\ UNCHANGED << plMax, plAttempts, plResponses, appVars, fuVars, auVars >>

PollNext ==
    \/ \E max \in 0..(maxAttempts + 1) : PollCall(max)
    \/ \E r \in PollResponses : PollIteration(r)
    \/ PollTimesOut

\* Every evaluateTranscript call of the loop comes back.
PollSpec == Init /\ [][PollNext]_vars /\ WF_vars(PollNext)


\* ------------------------------------------------ AuthProvider (browser)

\* The accounts that sign in; an account's access token is written as the
\* account.
Accounts == { "ada", "bob" }

\* The page is loaded again: the component state starts over, localStorage
\* and the client's session stay.
AppLoad ==
    /\ authUser' = "null"
    /\ authLoading' = TRUE
    /\ authError' = "null"
    /\ UNCHANGED << authToken, authSession, authRequests, appVars, fuVars, plVars >>

\* loadUser of the mount effect (part_019 lines 149-162) with
\* getCurrentUser (uploadService.ts lines 214-225): the user of the session,
\* or null when there is none or getUser fails.
LoadUser(ok) ==
    /\ authLoading
    /\ authUser' = IF ok THEN authSession ELSE "null"
    /\ authLoading' = FALSE
    /\ UNCHANGED << authError, authToken, authSession, authRequests, appVars,
                    fuVars, plVars >>

\* What signIn and signUp of the service do (uploadService.ts lines
\* 151-193) and what handleSignIn and handleSignUp make of it: an error is
\* shown, a session is stored with its token and its user set, and without
\* a session null is returned and set as the user.
SignedIn(account, outcome, message) ==
    IF outcome = "error"
    THEN /\ authError' = message
         /\ UNCHANGED << authUser, authToken, authSession >>
    ELSE IF outcome = "session"
    THEN /\ authError' = "null"
         /\ authSession' = account
         /\ authToken' = account
         /\ authUser' = account
    ELSE /\ authError' = "null"
         /\ authUser' = "null"
         /\ UNCHANGED << authToken, authSession >>

\* handleSignIn (part_019 lines 164-175).  signInWithPassword gives an
\* error or a session.
HandleSignIn(account, outcome) ==
    /\ outcome \in {"error", "session"}
    /\ SignedIn(account, outcome, "Invalid login credentials")
    /\ UNCHANGED << authLoading, authRequests, appVars, fuVars, plVars >>

\* handleSignUp (part_019 lines 177-188).  signUp gives an error, a
\* session, or a user without session when the address has to be confirmed.
HandleSignUp(account, outcome) ==
    /\ outcome \in {"error", "session", "no_session"}
    /\ SignedIn(account, outcome, "User already registered")
    /\ UNCHANGED << authLoading, authRequests, appVars, fuVars, plVars >>

\* handleSignOut (part_019 lines 190-199) with signOut (uploadService.ts
\* lines 195-203): the token is cleared and the user set to null only when
\* the client's signOut gave no error.
HandleSignOut(ok) ==
    /\ IF ok
       THEN /\ authSession' = "null"
            /\ authToken' = "null"
            /\ authUser' = "null"
            /\ authError' = "null"
       ELSE /\ authError' = "Sign out failed"
            /\ UNCHANGED << authUser, authToken, authSession >>
    /\ UNCHANGED << authLoading, authRequests, appVars, fuVars, plVars >>

\* getAuthHeader (api.ts lines 49-52).
getAuthHeader == IF authToken # "null" THEN << "Authorization", authToken >> ELSE << >>

\* A request of the API service (uploadTranscript, getPastEvaluations)
\* is sent with the header getAuthHeader gives at that moment.
ApiRequest ==
    /\ Len(authRequests) < MaxRequests
    /\ authRequests' = Append(authRequests,
           [user |-> authUser, headers |-> getAuthHeader])
    /\ UNCHANGED << authUser, authLoading, authError, authToken, authSession,
                    appVars, fuVars, plVars >>

AuthNext ==
    \/ AppLoad
    \/ ApiRequest
    \/ \E ok \in BOOLEAN : LoadUser(ok)
    \/ \E account \in Accounts, outcome \in {"error", "session"} :
           HandleSignIn(account, outcome)
    \/ \E account \in Accounts, outcome \in {"error", "session", "no_session"} :
           HandleSignUp(account, outcome)
    \/ \E ok \in BOOLEAN : HandleSignOut(ok)

AuthSpec == Init /\ [][AuthNext]_vars


\* ------------------------------------------------------------- properties

StatusOf(i) == interviews[i].status

\* The transitions of the status state machine: uploaded -> processing ->
\* evaluated | error, besides the creation of the row.
StatusStep(a, b) ==
    \/ a = b
    \/ a = "none" /\ b = "uploaded"
    \/ a = "uploaded" /\ b = "processing"
    \/ a = "processing" /\ b \in {"evaluated", "error"}

\* C1: the statuses an interview row takes are a prefix of uploaded,
\* processing, (evaluated | error): every change of status is one of the
\* transitions of the state machine, so processing is never skipped, never
\* left for uploaded, and evaluated is never left.
C1_StatusMonotonic ==
    [][\A i \in InterviewIds : StatusStep(StatusOf(i), StatusOf(i)')]_vars

InFlight(i) == { c \in Clients : pc[c] = "judge" /\ req[c] = i }

\* C2: per interview at most one Judge invocation is in flight at any time.
C2_OneJudgeInFlight ==
    \A i \in InterviewIds : Cardinality(InFlight(i)) <= 1

\* C3: an evaluate request that finds the interview in a status other than
\* uploaded or error is a no-op signalling InvalidStateTransition: the
\* handler answers with the conflict at once, and the interview row, the
\* stored results and the Judge call count stay as they were.
C3_IneligibleIsNoOp ==
    [][\A c \in Clients :
          ( /\ pc[c] = "update_processing"
            /\ pc'[c] # pc[c]
            /\ interview[c].status \notin {"uploaded", "error"} )
          => ( /\ pc'[c] = "respond"
               /\ resp'[c].status = 409
               /\ UNCHANGED << dbVars, judgeCalls >> )]_vars

\* C4: when the Judge call of a handler fails, the interview's status is
\* error from then on (it does not stay processing) and the interview has
\* no evaluation_results row.
C4_JudgeFailureRecorded ==
    [][\A c \in Clients :
          (pc[c] = "judge" /\ pc'[c] = "respond")
          => ( /\ StatusOf(req[c])' = "error"
               /\ RowsOf(evaluation_results', req[c]) = << >> )]_vars

\* C5: every interview has at most one evaluation_results row, and exactly
\* one when its status is evaluated.
C5_SingleResult ==
    \A i \in InterviewIds :
        /\ Len(RowsOf(evaluation_results, i)) <= 1
        /\ StatusOf(i) = "evaluated" => Len(RowsOf(evaluation_results, i)) = 1

\* The criteria the evaluation_results rows of an interview were stored
\* with, and the criteria rows the interview has.
ResultCriteria(i) ==
    LET rs == RowsOf(evaluation_results, i)
    IN UNION { { [criterion_name |-> rs[k].result_data[j].criterion,
                  score |-> rs[k].result_data[j].score] :
                 j \in 1..Len(rs[k].result_data) } : k \in 1..Len(rs) }

StoredCriteria(i) ==
    LET cr == RowsOf(criteria_evaluations, i)
    IN { [criterion_name |-> cr[k].criterion_name, score |-> cr[k].score] :
         k \in 1..Len(cr) }

\* C6: a result and its criteria are persisted in one atomic write: in no
\* state does an interview have an evaluation_results row without all of
\* its criteria_evaluations rows, or criteria rows without the result row.
C6_AtomicPersist ==
    \A i \in InterviewIds : StoredCriteria(i) = ResultCriteria(i)

\* C7: an interview has a stored evaluation_results row if and only if its
\* status is evaluated.
C7_ResultIffEvaluated ==
    \A i \in InterviewIds :
        (RowsOf(evaluation_results, i) # << >>) <=> (StatusOf(i) = "evaluated")

\* Validation of a Judge answer: criteria present, every score a number in
\* [0,10], summary not empty.
ValidResult(r) ==
    /\ r.criteria_evaluations # << >>
    /\ \A k \in 1..Len(r.criteria_evaluations) :
          /\ r.criteria_evaluations[k].score # NonNumeric
          /\ r.criteria_evaluations[k].score \in 0..100
    /\ r.summary # ""

\* C8: a Judge output that fails validation is terminal: the handler stops
\* with the interview in error and persists nothing, and the polling client
\* does not send the request again after a malformed output.
C8_ValidationFailureTerminal ==
    [][\A c \in Clients :
          /\ ( /\ pc[c] = "judge"
               /\ pc'[c] # pc[c]
               /\ \/ pc'[c] = "store_result" /\ ~ValidResult(evaluationResult'[c])
                  \/ pc'[c] = "respond" /\ resp'[c].detail \in MalformedFailures )
             => (pc'[c] = "respond" /\ StatusOf(req[c])' = "error")
          /\ (pc[c] = "respond" /\ resp[c].detail \in MalformedFailures)
             => pc'[c] # "request"]_vars

\* C9: every stored score is within [0,10] (0..100 in tenths): overall_score
\* and the score of every criteria_evaluations row.
C9_ScoresInRange ==
    /\ \A k \in 1..Len(evaluation_results) :
          evaluation_results[k].overall_score # Null
          => evaluation_results[k].overall_score \in 0..100
    /\ \A k \in 1..Len(criteria_evaluations) :
          criteria_evaluations[k].score \in 0..100

\* The answers of a handler that had invoked the Judge and then failed.
JudgedFailureBodies == {"Evaluation failed", "Failed to store evaluation results"}

\* C10: within one run of the polling loop the Judge is invoked again only
\* after a transient Judge failure, and when the attempts are used up after
\* such a failure the interview is recorded as error.
C10_RetryOnlyTransient ==
    [][\A c \in Pollers :
          /\ ( /\ pc[c] = "download" /\ pc'[c] = "judge"
               /\ attempts[c] > 0
               /\ resp[c].body \in JudgedFailureBodies )
             => resp[c].detail \in TransientFailures
          /\ ( /\ pc[c] = "respond" /\ pc'[c] = "thrown"
               /\ resp[c].detail \in TransientFailures )
             => StatusOf(req[c])' = "error"]_vars


\* ------------------------------------------- the overall score on its own

\* Scores within the range the prompt asks for (index.ts line 180: 0-10),
\* in tenths: whole numbers and numbers with a decimal digit.
ScoreValues == {0, 1, 40, 70, 75, 80}

RECURSIVE SeqsUpTo(_, _)
SeqsUpTo(S, n) ==
    IF n = 0 THEN { << >> }
    ELSE LET shorter == SeqsUpTo(S, n - 1)
         IN shorter \cup { Append(q, x) : q \in shorter, x \in S }

ScoreLists ==
    SeqsUpTo({ Crit("Python Proficiency", v) : v \in ScoreValues }, MaxCriteria)
        \ { << >> }

\* A handler of interview 1 is waiting for the Judge.
ScoreInit ==
    /\ interviews = [i \in InterviewIds |->
          IF i = 1 THEN [status |-> "processing", transcript_storage_path |-> 1,
           user_id |-> UserOf["poll"]]
          ELSE NoInterview]
    /\ storage = {1}
    /\ evaluation_results = << >>
    /\ criteria_evaluations = << >>
    /\ judgeCalls = [i \in InterviewIds |-> IF i = 1 THEN 1 ELSE 0]
    /\ upPc = "idle"
    /\ upPath = 0
    /\ upFile = NoFile
    /\ upName = NoName
    /\ pc = [c \in Clients |-> IF c = "direct" THEN "judge" ELSE "idle"]
    /\ attempts = [c \in Clients |-> 0]
    /\ req = [c \in Clients |-> IF c = "direct" THEN 1 ELSE NoId]
    /\ interview = [c \in Clients |->
          IF c = "direct" THEN [status |-> "uploaded", transcript_storage_path |-> 1,
           user_id |-> UserOf["poll"]]
          ELSE NoInterview]
    /\ evaluationResult = [c \in Clients |-> NoResult]
    /\ resp = [c \in Clients |-> NoResponse]
    /\ FileUploadInit
    /\ PollInit
    /\ AuthInit

\* The Judge answers with any list of scores.
ScoreNext == \E cs \in ScoreLists : JudgeReturns("direct", Answer(cs, "Good"))

ScoreSpec == ScoreInit /\ [][ScoreNext]_vars

Permuted(cs, p) == [k \in 1..Len(cs) |-> cs[p[k]]]

\* C11: the overall score evaluateTranscript computes is the arithmetic mean
\* of the criterion scores rounded to one decimal place (the tenth nearest
\* to the mean, a tie going up), and it is the same for every ordering of
\* the criteria list.
C11_OverallIsRoundedMean ==
    pc["direct"] = "store_result" =>
        LET cs == evaluationResult["direct"].criteria_evaluations
            t == evaluationResult["direct"].overall_score
            n == Len(cs)
            total == SumScores(cs)
        IN /\ 2 * t * n - n <= 2 * total
           /\ 2 * total < 2 * t * n + n
           /\ \A p \in Permutations(1..n) : OverallScore(Permuted(cs, p)) = t
           /\ (n = 1 /\ cs[1].score = 80) => t = 80

\* -------------------------------------------------- upload service claims

\* The stored transcripts no interview row points to.
OrphanTranscripts ==
    { p \in storage :
        \A i \in InterviewIds :
            ~Exists(i) \/ interviews[i].transcript_storage_path # p }

\* C12: uploadTranscript of the upload service is all-or-nothing: once the
\* call is over, every stored transcript belongs to an interview record and
\* every interview record has its transcript stored; a call that failed has
\* left neither a transcript nor a record behind.
C12_UploadAllOrNothing ==
    upPc = "idle" =>
        /\ OrphanTranscripts = {}
        /\ \A i \in InterviewIds :
               Exists(i) => interviews[i].transcript_storage_path \in storage

UploadStep == upPc' # upPc \/ storage' # storage

ValidUpload(file, candidateName) ==
    candidateName # "" /\ file.size <= MAX_FILE_SIZE_MB

\* C19: an upload with an empty candidate name or with a file above the
\* maximum size of 5 MB is rejected at upload time: no step stores a
\* transcript and no step creates an interview record for such an upload
\* (so no evaluation can start for it).
C19_InvalidUploadRejected ==
    [][ /\ storage' # storage => ValidUpload(upFile', upName')
        /\ \A i \in InterviewIds :
               (StatusOf(i) = "none" /\ StatusOf(i)' # "none")
                   => ValidUpload(upFile, upName) ]_vars

\* ------------------------------------------------------ read-side claims

\* C14: the client polls an evaluation through the pure read
\* getInterviewStatus: every step of a poll, from the request sent to the
\* answer received, leaves the interview rows, the stored results and the
\* Judge call counts as they were, no step waits for a Judge call, and a
\* successful answer is the status of the interview.
C14_PollingIsPureRead ==
    [][\A c \in Pollers :
          pc'[c] # pc[c] =>
              /\ UNCHANGED << dbVars, judgeCalls >>
              /\ pc'[c] # "judge"
              /\ (pc'[c] = "respond" /\ resp'[c].status = 200) =>
                     resp'[c].body = getInterviewStatus(req[c], TRUE)]_vars

\* What a client is given as the result of interview i.
ResultsGiven(i) ==
    { k \in 1..Len(getPastEvaluations) : getPastEvaluations[k].interview_id = i }

\* C15: for an existing interview whose status is not evaluated, fetching
\* the result fails with NotReady: the client is given no result for it.
C15_NotReadyBeforeEvaluated ==
    \A i \in InterviewIds :
        (Exists(i) /\ StatusOf(i) # "evaluated") => ResultsGiven(i) = {}

\* ------------------------------------------------- error-surface claims

\* C16: a Judge failure is never returned to the caller that triggered the
\* evaluation, and no answer carries the provider's error message: every
\* answer a caller holds is free of a Judge failure.
C16_JudgeFailureNotReturned ==
    \A c \in Clients :
        /\ resp[c].detail \notin JudgeFailures
        /\ resp[c].body # "Evaluation failed"

\* C17: the evaluate request is answered before the Judge call completes:
\* whenever a handler is waiting for the Judge, its caller already holds the
\* answer saying that the interview is processing.
C17_AnsweredBeforeJudge ==
    \A c \in Clients :
        pc[c] = "judge" => (resp[c].status = 202 /\ resp[c].body = "processing")

\* ------------------------------------------------------------ rubric claim

\* The criterion names persisted for interview i.
PersistedNames(i) ==
    { RowsOf(criteria_evaluations, i)[k].criterion_name :
        k \in 1..Len(RowsOf(criteria_evaluations, i)) }

\* C18: the criterion names persisted for an interview all belong to the
\* active rubric, whatever names the Judge returned, and an evaluated
\* interview with a stored evaluation has at least one of them.
C18_CriteriaWithinActiveRubric ==
    \A i \in InterviewIds :
        /\ PersistedNames(i) \subseteq ActiveRubric
        /\ (StatusOf(i) = "evaluated" /\ RowsOf(evaluation_results, i) # << >>)
               => PersistedNames(i) # {}

\* ------------------------------------------------------- FileUpload claim

\* A name ending in .txt or .md.
Supported(name) ==
    \E k \in 1..Len(name) :
        SubSeq(name, k, Len(name)) \in { << ".", "t", "x", "t" >>, << ".", "m", "d" >> }

\* C20: selecting or dropping a file whose name does not end in .txt or .md
\* never calls uploadTranscript: the step handling such a file leaves the
\* calls as they were, sets the error 'Please upload a .txt or .md file' and
\* leaves the component not uploading, and no call of uploadTranscript was
\* ever made with such a name.
C20_UnsupportedFileNotUploaded ==
    /\ [](\A k \in DOMAIN fuCalls : Supported(fuCalls[k]))
    /\ [][(fuEvents' # fuEvents /\ fuFile' # NoFileName /\ ~Supported(fuFile')) =>
             /\ fuCalls' = fuCalls
             /\ error' = "Please upload a .txt or .md file"
             /\ ~uploading /\ ~uploading']_vars

\* An unsupported file was handled after a supported one had been uploaded.
C20_Witness ==
    /\ fuFile # NoFileName
    /\ ~Supported(fuFile)
    /\ error = "Please upload a .txt or .md file"
    /\ ~uploading
    /\ fuCalls # << >>

\* C21: for every accepted file processFile calls uploadTranscript exactly
\* once with that file, and each call ends in exactly one of two ways:
\* resolved, with the result given once to onEvaluationComplete and no
\* error, or rejected, with the message of the rejection as the error and
\* onEvaluationComplete not called; either way uploading is false and
\* progress is null afterwards.
C21_ProcessFileOutcome ==
    /\ [](Len(fuCalls) = Len(fuPending) + Len(fuSettled))
    /\ [][(fuEvents' # fuEvents /\ fuFile' # NoFileName /\ Supported(fuFile')) =>
             fuCalls' = Append(fuCalls, fuFile')]_vars
    /\ [][IF Len(fuSettled') > Len(fuSettled)
          THEN LET e == fuSettled'[Len(fuSettled')]
               IN /\ fuCalls' = fuCalls
                  /\ ~uploading'
                  /\ progress' = "null"
                  /\ e.outcome = "resolved" =>
                         /\ fuCompleted' = Append(fuCompleted, e.value)
                         /\ error' = "null"
                  /\ e.outcome = "rejected" =>
                         /\ fuCompleted' = fuCompleted
                         /\ error' = e.value
          ELSE fuCompleted' = fuCompleted]_vars

\* One upload has resolved and a later one has been rejected.
C21_Witness ==
    /\ ~uploading
    /\ progress = "null"
    /\ fuPending = << >>
    /\ Len(fuSettled) = 2
    /\ fuSettled[1].outcome = "resolved"
    /\ fuSettled[2].outcome = "rejected"
    /\ fuCompleted = << fuSettled[1].value >>
    /\ error = fuSettled[2].value

\* C29: the FileUpload component has at most one upload in flight:
\* uploading is true exactly while a processFile call is pending, at most
\* one is pending, and while uploading is true no selection or drop starts
\* another uploadTranscript call.
C29_OneUploadInFlight ==
    /\ [](Len(fuPending) <= 1 /\ (uploading <=> fuPending # << >>))
    /\ [][uploading => (fuCalls' = fuCalls /\ fuEvents' = fuEvents)]_vars

\* A second upload is in flight after the first has ended.
C29_Witness ==
    /\ uploading
    /\ Len(fuPending) = 1
    /\ Len(fuSettled) = 1
    /\ Len(fuCalls) = 2

\* ---------------------------------------------------- round-trip claim

\* The newest result a client reads back for interview i.
ReadBack(i) ==
    LET ks == { k \in DOMAIN getPastEvaluations :
                  getPastEvaluations[k].interview_id = i }
    IN getPastEvaluations[CHOOSE k \in ks : \A j \in ks : k <= j]

\* A result as handed to the persistence step, in the shape of the read.
AsRead(result) ==
    [overallScore |-> result.overall_score,
     summary |-> result.summary,
     criteria |-> [j \in DOMAIN result.criteria_evaluations |->
                     [name |-> result.criteria_evaluations[j].criterion,
                      score |-> result.criteria_evaluations[j].score]]]

\* C22: round trip: when the persistence step of a handler has stored its
\* evaluation result, the result read back for that interview equals field
\* for field what was passed to the step, for the first evaluate request and
\* for every further one for the same interview.
C22_RoundTrip ==
    [][\A c \in Clients :
          (pc[c] = "store_criteria" /\ pc'[c] = "update_evaluated") =>
              LET read == ReadBack(req[c])'
                  stored == AsRead(evaluationResult[c])
              IN /\ read.overallScore = stored.overallScore
                 /\ read.summary = stored.summary
                 /\ read.criteria = stored.criteria]_vars

\* ------------------------------------------------ handler outcome claims

\* C23: an evaluate request with a missing interview_id or with an unknown
\* interview id is answered at once with 400 or 404 and has no effect: the
\* step that handles it changes no interview, invokes no Judge and writes
\* no result row, and the handler is over with the answer.
C23_BadRequestNoEffect ==
    [][\A c \in Clients :
          ( /\ pc[c] = "request"
            /\ pc'[c] # "request"
            /\ (req[c] = NoId \/ ~Exists(req[c])) )
          => /\ pc'[c] = "respond"
             /\ resp'[c].status = IF req[c] = NoId THEN 400 ELSE 404
             /\ interview'[c] = NoInterview
             /\ UNCHANGED << dbVars, storage, judgeCalls >>]_vars

\* A request for an unknown interview id has been answered with 404.
C23_Witness ==
    \E c \in Clients :
        /\ pc[c] = "respond"
        /\ req[c] # NoId
        /\ ~Exists(req[c])
        /\ resp[c].status = 404
        /\ judgeCalls[req[c]] = 0

\* C24: a user observes and changes only interviews they own: a success
\* answer, which carries the scores and the summary, goes only to the owner
\* of the interview, and no step of a request made by another user changes
\* the interview or writes rows for it.
C24_OwnerOnly ==
    /\ [](\A c \in Clients :
             (pc[c] = "respond" /\ resp[c].status = 200)
                 => interviews[req[c]].user_id = UserOf[c])
    /\ [][\A c \in Clients :
             ( /\ pc'[c] # pc[c]
               /\ Exists(req[c])
               /\ interviews[req[c]].user_id # UserOf[c] )
             => UNCHANGED dbVars]_vars

\* ------------------------------------------------------ poll loop claim

\* C25: pollEvaluationResults terminates with a ceiling on attempts:
\* whatever the responses, it makes at most maxAttempts calls of
\* evaluateTranscript and then returns a result, only on a 'success'
\* response, or throws; when every response is processing it throws
\* 'Evaluation timed out' after exactly maxAttempts calls.
C25_PollTerminates ==
    /\ [](Len(plResponses) <= plMax)
    /\ [](plPc = "returned" =>
             /\ plOutcome = "result"
             /\ plResponses[Len(plResponses)] = "success")
    /\ [](( /\ plPc = "thrown"
            /\ \A k \in DOMAIN plResponses : plResponses[k] = "processing" )
           => /\ plOutcome = "Evaluation timed out"
              /\ Len(plResponses) = plMax)
    /\ [][(plPc \in {"returned", "thrown"}) => UNCHANGED plVars]_vars
    /\ (plPc = "loop") ~> (plPc \in {"returned", "thrown"})

\* The loop has thrown 'Evaluation timed out' after maxAttempts responses
\* that all said processing.
C25_Witness ==
    /\ plPc = "thrown"
    /\ plOutcome = "Evaluation timed out"
    /\ plMax >= 2
    /\ Len(plResponses) = plMax
    /\ \A k \in DOMAIN plResponses : plResponses[k] = "processing"

\* ------------------------------------------- handler and status claims

\* C26: the Judge is invoked only after the interview has been moved to
\* processing: whenever a Judge call for an interview is in flight, the
\* stored status of that interview is processing.
C26_JudgeOnlyWhileProcessing ==
    \A c \in Clients :
        pc[c] = "judge" => StatusOf(req[c]) = "processing"

\* C27: an evaluate request that ends with 404 'Transcript not found',
\* before the Judge is invoked, leaves the status of the interview as the
\* request found it.
C27_DownloadFailureRestoresStatus ==
    [][\A c \in Clients :
          ( /\ pc[c] = "download"
            /\ pc'[c] = "respond"
            /\ resp'[c].body = "Transcript not found" )
          => StatusOf(req[c])' = interview[c].status]_vars

\* C28: when the handler answers with status 'success', the stored status
\* of the interview is evaluated and its result rows are stored.
C28_SuccessMeansEvaluated ==
    [][\A c \in Clients :
          ( /\ pc[c] # "respond"
            /\ pc'[c] = "respond"
            /\ resp'[c].status = 200 )
          => /\ StatusOf(req[c])' = "evaluated"
             /\ RowsOf(evaluation_results, req[c])' # << >>
             /\ Len(RowsOf(criteria_evaluations, req[c])') >=
                    Len(evaluationResult[c].criteria_evaluations)]_vars

\* ------------------------------------------------------------ auth claim

\* C30: the stored token tracks the signed-in user: once the app has
\* loaded, after any sign-in, sign-up and sign-out, the AuthProvider has a
\* user exactly when 'supabase_auth_token' is in localStorage, so a request
\* made for a logged-in user carries an Authorization header; and a failed
\* sign-out leaves the user and the token as they were.
C30_TokenTracksUser ==
    /\ [](~authLoading => (authUser # "null" <=> authToken # "null"))
    /\ [](\A k \in DOMAIN authRequests :
             authRequests[k].user # "null" => authRequests[k].headers # << >>)
    /\ [][(authError' = "Sign out failed" /\ authError # "Sign out failed")
            => UNCHANGED << authUser, authToken >>]_vars

====
